---- MODULE Spec2Model ----
(***************************************************************************)
(* ComputerUseAgent (src/src/index.ts): the desktop sandbox handle, the    *)
(* conversation history, the action executor and the chat turn loop, with  *)
(* the sandbox and the completion provider as nondeterministic             *)
(* environments.                                                           *)
(*                                                                         *)
(* A JavaScript string is a sequence of tokens (one-character strings or   *)
(* whole literals), so that  +  is \o and the empty string is <<>>.        *)
(* A number that Math.round is applied to is held as twice its value       *)
(* (5 stands for 2.5).                                                     *)
(***************************************************************************)
EXTENDS Integers, Sequences, FiniteSets, TLC

\* ------------------------------------------------------------------ bounds

\* chat invocations explored in one behaviour
MaxChats == 2
\* Sandbox.create() calls explored in one behaviour
MaxSandboxes == 2
\* largest scroll amount a response asks for
MaxAmount == 2

\* the callers that may hold a pending call on the agent (Main is the one
\* of the sequential use; a second one stands for an overlapping call)
Callers == {1, 2}

Null == 0

\* ------------------------------------------------------------ literals

NotInitialized == <<"Desktop sandbox not initialized">>
SandboxError == <<"sandbox call failed">>
ProviderError == <<"provider call failed">>
Fallback == <<"Task completed. Ready for the next instruction.">>

ToolNames == {"screenshot", "click", "type", "key", "scroll", "launch_app", "wait"}

\* ---------------------------------------------------------- environment

UserMessages == {<<"g", "o">>}

\* the screen the sandboxes show after n chat invocations have started
Image(n) == <<"png", n>>

\* an object without properties
NoInput == [f \in {} |-> 0]

T(s) == [type |-> "text", text |-> s]
U(n, in) == [type |-> "tool_use", name |-> n, input |-> in]

\* what the provider may answer to the first request of a turn
\* (tool_use blocks get their id when the answer is delivered)
FirstResponses ==
  { <<>>,
    <<T(<<"h", "i">>)>>,
    <<T(<<>>)>>,
    <<T(<<"h">>), T(<<"i">>)>>,
    <<U("screenshot", NoInput)>>,
    <<T(<<"h", "i">>), U("click", [x |-> 5, y |-> -5]), U("bogus", [q |-> 1])>>,
    <<U("scroll", [direction |-> "down", amount |-> MaxAmount]), T(<<>>),
      U("launch_app", [app |-> "gedit"])>> }

\* what the provider may answer to the follow-up request
FollowUpResponses ==
  { <<>>,
    <<T(<<"o", "k">>)>>,
    <<T(<<>>), U("click", [x |-> 2, y |-> 2])>> }

\* the calls an outside caller may make on executeToolCall directly
DirectToolCalls ==
  { [name |-> "type", input |-> [text |-> <<"a">>]],
    [name |-> "key", input |-> [key |-> "Tab"]],
    [name |-> "scroll", input |-> [direction |-> "up"]],
    [name |-> "wait", input |-> [duration |-> 5]],
    [name |-> "bogus", input |-> NoInput],
    [name |-> "drag", input |-> [x |-> 1, y |-> 1]] }

\* the provider numbers its answers; the id of a tool_use block is unique
Stamp(tmpl, n) ==
  [j \in 1..Len(tmpl) |->
     IF tmpl[j].type = "tool_use"
       THEN [type |-> "tool_use", id |-> <<n, j>>,
             name |-> tmpl[j].name, input |-> tmpl[j].input]
       ELSE tmpl[j]]

\* ---------------------------------------------------------------- state

VARIABLES
  desktop,              \* this.desktop: Null or the id of a sandbox
  conversationHistory,  \* this.conversationHistory
  sandboxes,            \* the sandboxes created so far: id -> "live" | "killed"
  pc,                   \* where each caller's pending call is
  call,                 \* the locals and the observed effects of each caller's call
  nRequests,            \* requests sent to the provider so far
  nChats,               \* chat invocations so far
  mainPc,               \* the statement main() is at: "off" when no main() runs
  opencode,             \* the fields of an OpencodeComputerAgent and its servers
  retrier               \* the locals of one TaskExecutor.retry call

vars == <<desktop, conversationHistory, sandboxes, pc, call, nRequests, nChats,
          mainPc, opencode, retrier>>

NoCall ==
  [ op |-> "none", userMessage |-> <<>>, toolName |-> "", toolInput |-> NoInput,
    base |-> 0, hadDesktop |-> FALSE, target |-> Null,
    screenshotBase64 |-> "", content |-> <<>>, followUp |-> <<>>,
    assistantMessage |-> <<>>, toolCalls |-> <<>>, toolResults |-> <<>>,
    request |-> <<>>, pending |-> <<>>,
    outcome |-> "pending", error |-> <<>>, ret |-> <<>>, events |-> <<>> ]

\* what the last operation on the OpencodeComputerAgent did
NoOperation ==
  [ op |-> "none", hadClient |-> FALSE, outcome |-> "returned", error |-> <<>>,
    ret |-> FALSE, requests |-> <<>> ]

\* a new OpencodeComputerAgent: server, client and currentSession are null;
\* servers are the local servers started so far, sessions the sessions
\* created so far
NewOpencodeAgent ==
  [ server |-> Null, client |-> Null, currentSession |-> Null,
    servers |-> <<>>, sessions |-> <<>>, last |-> NoOperation ]

\* no retry call has been made
NoRetry ==
  [ pc |-> "off", maxAttempts |-> 0, delayMs |-> 0, failing |-> 0, i |-> 0,
    trace |-> <<>>, waited |-> 0, outcome |-> "pending", ret |-> FALSE ]

\* a new agent: no desktop, no history; the other components are at rest
NewAgent ==
  /\ opencode = NewOpencodeAgent
  /\ retrier = NoRetry
  /\ desktop = Null
  /\ conversationHistory = <<>>
  /\ sandboxes = <<>>
  /\ pc = [c \in Callers |-> "idle"]
  /\ call = [c \in Callers |-> NoCall]
  /\ nRequests = 0
  /\ nChats = 0

Init == NewAgent /\ mainPc = "off"


\* ------------------------------------------------------- pure helpers

Undefined == "undefined"

\* a property of a JavaScript object: undefined when it is absent
Field(input, f) == IF f \in DOMAIN input THEN input[f] ELSE Undefined

\* Math.round on a number held as twice its value: floor(v + 0.5)
Round(h) == (h + 1) \div 2

\* Math.round(input[f]): NaN when the property is absent
RoundField(input, f) == IF f \in DOMAIN input THEN Round(input[f]) ELSE "NaN"

\* for (let i = 0; i < amount; i++): the passes of the loop; an undefined
\* amount compares false
Iterations(input) ==
  IF "amount" \in DOMAIN input /\ input["amount"] > 0 THEN input["amount"] ELSE 0

SbCall(o, a) == [op |-> o, arg |-> a]

\* the sandbox operations executeToolCall awaits for a tool, in order
PlannedCalls(toolName, toolInput) ==
  CASE toolName = "screenshot" -> <<SbCall("screenshot", NoInput)>>
    [] toolName = "click" ->
         <<SbCall("click", [x |-> RoundField(toolInput, "x"),
                            y |-> RoundField(toolInput, "y")])>>
    [] toolName = "type" -> <<SbCall("write", Field(toolInput, "text"))>>
    [] toolName = "key" -> <<SbCall("press", Field(toolInput, "key"))>>
    [] toolName = "scroll" ->
         [i \in 1..Iterations(toolInput) |->
            SbCall("press", IF Field(toolInput, "direction") = "down"
                              THEN "Page_Down" ELSE "Page_Up")]
    [] toolName = "launch_app" -> <<SbCall("launch", Field(toolInput, "app"))>>
    [] OTHER -> <<>>

\* the index of the first planned sandbox call that fails, 0 when none does:
\* a call on a killed sandbox fails, a call on a live one fails when the
\* environment says so (failAt)
FirstFailure(planned, live, failAt) ==
  IF planned = <<>> THEN 0
  ELSE IF ~live THEN 1
  ELSE IF failAt \in 1..Len(planned) THEN failAt
  ELSE 0

\* the sandbox calls actually made, each with the sandbox it went to and
\* whether it succeeded
MadeCalls(planned, d, live, failAt) ==
  LET f == FirstFailure(planned, live, failAt)
      n == IF f = 0 THEN Len(planned) ELSE f
  IN [i \in 1..n |->
        [ev |-> "sandbox", op |-> planned[i].op, arg |-> planned[i].arg,
         sb |-> d, ok |-> (i # f)]]

\* executeToolCall with one of its three protections taken away: the check of
\* this.desktop (guarded), the try/catch around the sandbox calls (caught),
\* the name in the message of the default branch (named)
ExecuteToolCallVariant(toolName, toolInput, d, live, failAt, img, guarded, caught, named) ==
  LET planned == PlannedCalls(toolName, toolInput)
      f == FirstFailure(planned, live, failAt)
  IN IF guarded /\ d = Null
       THEN [threw |-> TRUE, error |-> NotInitialized, result |-> [error |-> <<>>],
             calls |-> <<>>]
     ELSE IF ~caught /\ f # 0
       THEN [threw |-> TRUE, error |-> SandboxError, result |-> [error |-> <<>>],
             calls |-> MadeCalls(planned, d, live, failAt)]
     ELSE [threw |-> FALSE, error |-> <<>>,
           calls |-> MadeCalls(planned, d, live, failAt),
           result |->
             IF f # 0 THEN [error |-> SandboxError]
             ELSE IF toolName = "screenshot"
               THEN [success |-> TRUE, image_base64 |-> img]
             ELSE IF toolName \in ToolNames
               THEN [success |-> TRUE]
             ELSE IF named THEN [error |-> <<"Unknown tool: ", toolName>>]
             ELSE [error |-> <<"Unknown tool">>]]

\* mutant: the check of this.desktop is missing
ExecuteToolCallUnguarded(toolName, toolInput, d, live, failAt, img) ==
  ExecuteToolCallVariant(toolName, toolInput, d, live, failAt, img, FALSE, TRUE, TRUE)

\* mutant: the error of a sandbox call is not caught
ExecuteToolCallUncaught(toolName, toolInput, d, live, failAt, img) ==
  ExecuteToolCallVariant(toolName, toolInput, d, live, failAt, img, TRUE, FALSE, TRUE)

\* mutant: the default branch does not name the tool
ExecuteToolCallUnnamed(toolName, toolInput, d, live, failAt, img) ==
  ExecuteToolCallVariant(toolName, toolInput, d, live, failAt, img, TRUE, TRUE, FALSE)

\* executeToolCall(toolName, toolInput) on an agent whose desktop is d;
\* the string it returns is held as the object JSON.stringify was given
ExecuteToolCall(toolName, toolInput, d, live, failAt, img) ==
  IF d = Null
    THEN [threw |-> TRUE, error |-> NotInitialized, result |-> [error |-> <<>>],
          calls |-> <<>>]
    ELSE
      LET planned == PlannedCalls(toolName, toolInput)
          f == FirstFailure(planned, live, failAt)
      IN [threw |-> FALSE, error |-> <<>>,
          calls |-> MadeCalls(planned, d, live, failAt),
          result |->
            IF f # 0 THEN [error |-> SandboxError]
            ELSE IF toolName = "screenshot"
              THEN [success |-> TRUE, image_base64 |-> img]
            ELSE IF toolName \in ToolNames
              THEN [success |-> TRUE]
            ELSE [error |-> <<"Unknown tool: ", toolName>>]]

RECURSIVE TextOf(_)
\* assistantMessage += block.text for every text block, in order
TextOf(content) ==
  IF content = <<>> THEN <<>>
  ELSE (IF Head(content).type = "text" THEN Head(content).text ELSE <<>>)
         \o TextOf(Tail(content))

\* mutant: the follow-up text is appended without the newline
FollowUpTextOfDirect(content) == TextOf(content)

RECURSIVE FollowUpTextOf(_)
\* assistantMessage += `\n${block.text}` for every text block, in order
FollowUpTextOf(content) ==
  IF content = <<>> THEN <<>>
  ELSE (IF Head(content).type = "text" THEN <<"\n">> \o Head(content).text ELSE <<>>)
         \o FollowUpTextOf(Tail(content))

IsToolUse(b) == b.type = "tool_use"

\* mutant: the tool calls are collected in reverse order
ToolCallsReversed(content) ==
  LET us == SelectSeq(content, IsToolUse)
  IN [i \in 1..Len(us) |->
        [id |-> us[Len(us) + 1 - i].id, name |-> us[Len(us) + 1 - i].name,
         input |-> us[Len(us) + 1 - i].input]]

\* toolCalls.push({id, name, input}) for every tool_use block, in order
ToolCallsOf(content) ==
  LET us == SelectSeq(content, IsToolUse)
  IN [i \in 1..Len(us) |-> [id |-> us[i].id, name |-> us[i].name, input |-> us[i].input]]

UserTurn(text) == [role |-> "user", isArray |-> FALSE, content |-> text]
AssistantText(text) == [role |-> "assistant", isArray |-> FALSE, content |-> text]
AssistantBlocks(content) == [role |-> "assistant", isArray |-> TRUE, content |-> content]

\* conversationHistory.map(...): a string content becomes one text block
MapHistory(h) ==
  [i \in 1..Len(h) |->
     [role |-> h[i].role,
      content |-> IF h[i].isArray THEN h[i].content ELSE <<T(h[i].content)>>]]

\* mutant: the final entry always repeats the instruction
FinalTextAlways(h, userMessage) == userMessage

\* the text part of the final entry: "" when userMessage is the content of
\* the last history entry
FinalText(h, userMessage) ==
  IF h # <<>> /\ ~h[Len(h)].isArray /\ h[Len(h)].content = userMessage
    THEN <<>> ELSE userMessage

\* mutant: only the turn of this call is sent, without the earlier history
FirstRequestLastTurnOnly(h, userMessage, img) ==
  <<[role |-> "user", content |-> <<T(userMessage)>>],
    [role |-> "user",
     content |-> <<[type |-> "image", data |-> img], T(FinalText(h, userMessage))>>]>>

\* messages of the first request of a turn
FirstRequest(h, userMessage, img) ==
  MapHistory(h) \o
    <<[role |-> "user",
       content |-> <<[type |-> "image", data |-> img], T(FinalText(h, userMessage))>>]>>

\* toolResults.map(...) into the content of the synthetic user entry
ToolResultsMessage(toolResults) ==
  [i \in 1..Len(toolResults) |->
     [type |-> "tool_result", tool_use_id |-> toolResults[i].tool_use_id,
      content |-> toolResults[i].content]]

\* messages of the follow-up request
FollowUpRequest(h, toolResults) ==
  MapHistory(h) \o <<[role |-> "user", content |-> ToolResultsMessage(toolResults)]>>

\* mutant: an empty assistantMessage is kept as it is
OrFallbackNever(text) == text

\* if (!assistantMessage) assistantMessage = the fixed string
OrFallback(text) == IF text = <<>> THEN Fallback ELSE text

Live(d) == d # Null /\ sandboxes[d] = "live"


\* ------------------------------------------------------------- actions

Idle(c) == pc[c] = "idle"

\* the record of a call that starts now
Begin(c, o) == [NoCall EXCEPT !.op = o, !.base = Len(conversationHistory),
                              !.hadDesktop = (desktop # Null), !.target = desktop]

Returned(r, value) ==
  [r EXCEPT !.outcome = "returned", !.ret = value, !.pending = <<>>]
Threw(r, err) ==
  [r EXCEPT !.outcome = "threw", !.error = err, !.pending = <<>>]
\* the call is suspended at an await on one remote call
Awaiting(r, kind, n) == [r EXCEPT !.pending = <<[kind |-> kind, n |-> n]>>]
Logged(r, evs) == [r EXCEPT !.events = @ \o evs]

SandboxEvent(o, a, d, good) == [ev |-> "sandbox", op |-> o, arg |-> a, sb |-> d, ok |-> good]
ProviderEvent(n) == [ev |-> "provider", n |-> n]
ExecEvent(tc) == [ev |-> "exec", name |-> tc.name, input |-> tc.input]

\* initialize(): Sandbox.create() resolves
InitializeOk(c) ==
  /\ Idle(c)
  /\ Len(sandboxes) < MaxSandboxes
  /\ sandboxes' = Append(sandboxes, "live")
  /\ desktop' = Len(sandboxes) + 1
  /\ call' = [call EXCEPT ![c] =
       Returned(Logged(Begin(c, "initialize"),
                       <<SandboxEvent("create", NoInput, Len(sandboxes) + 1, TRUE)>>),
                <<>>)]
  /\ pc' = [pc EXCEPT ![c] = "done"]
  /\ UNCHANGED <<conversationHistory, nRequests, nChats, mainPc, opencode, retrier>>

\* initialize(): Sandbox.create() rejects, the error is rethrown
InitializeFails(c) ==
  /\ Idle(c)
  /\ call' = [call EXCEPT ![c] =
       Threw(Logged(Begin(c, "initialize"),
                    <<SandboxEvent("create", NoInput, Null, FALSE)>>), SandboxError)]
  /\ pc' = [pc EXCEPT ![c] = "done"]
  /\ UNCHANGED <<desktop, conversationHistory, sandboxes, nRequests, nChats, mainPc, opencode, retrier>>

\* mutant: a failing kill is rethrown by cleanup
CleanupRethrows(c, ok) ==
  /\ Idle(c)
  /\ IF desktop = Null
       THEN /\ ok
            /\ call' = [call EXCEPT ![c] = Returned(Begin(c, "cleanup"), <<>>)]
            /\ UNCHANGED sandboxes
       ELSE /\ call' = [call EXCEPT ![c] =
                 LET r == Logged(Begin(c, "cleanup"),
                                 <<SandboxEvent("kill", NoInput, desktop, ok)>>)
                 IN IF ok THEN Returned(r, <<>>) ELSE Threw(r, SandboxError)]
            /\ sandboxes' = IF ok THEN [sandboxes EXCEPT ![desktop] = "killed"]
                                  ELSE sandboxes
  /\ pc' = [pc EXCEPT ![c] = "done"]
  /\ UNCHANGED <<desktop, conversationHistory, nRequests, nChats, mainPc, opencode, retrier>>

\* cleanup(): kill() is awaited when there is a desktop, its failure is only
\* logged; this.desktop is left as it is
Cleanup(c, ok) ==
  /\ Idle(c)
  /\ IF desktop = Null
       THEN /\ ok
            /\ call' = [call EXCEPT ![c] = Returned(Begin(c, "cleanup"), <<>>)]
            /\ UNCHANGED sandboxes
       ELSE /\ call' = [call EXCEPT ![c] =
                 Returned(Logged(Begin(c, "cleanup"),
                                 <<SandboxEvent("kill", NoInput, desktop, ok)>>), <<>>)]
            /\ sandboxes' = IF ok THEN [sandboxes EXCEPT ![desktop] = "killed"]
                                  ELSE sandboxes
  /\ pc' = [pc EXCEPT ![c] = "done"]
  /\ UNCHANGED <<desktop, conversationHistory, nRequests, nChats, mainPc, opencode, retrier>>

\* takeScreenshot() called from outside chat
TakeScreenshot(c, ok) ==
  /\ Idle(c)
  /\ LET good == ok /\ Live(desktop)
         r == Logged(Begin(c, "takeScreenshot"),
                     <<SandboxEvent("screenshot", NoInput, desktop, good)>>)
     IN /\ call' = [call EXCEPT ![c] =
             IF desktop = Null THEN Threw(Begin(c, "takeScreenshot"), NotInitialized)
             ELSE IF good THEN Returned(r, Image(nChats))
             ELSE Threw(r, SandboxError)]
  /\ pc' = [pc EXCEPT ![c] = "done"]
  /\ UNCHANGED <<desktop, conversationHistory, sandboxes, nRequests, nChats, mainPc, opencode, retrier>>

\* executeToolCall(name, input) called from outside chat
ExecuteToolCallDirect(c, tc, failAt) ==
  /\ Idle(c)
  /\ LET x == ExecuteToolCall(tc.name, tc.input, desktop, Live(desktop), failAt,
                              Image(nChats))
         r == Logged([Begin(c, "executeToolCall") EXCEPT
                        !.toolName = tc.name, !.toolInput = tc.input], x.calls)
     IN /\ call' = [call EXCEPT ![c] =
                      IF x.threw THEN Threw(r, x.error) ELSE Returned(r, x.result)]
  /\ pc' = [pc EXCEPT ![c] = "done"]
  /\ UNCHANGED <<desktop, conversationHistory, sandboxes, nRequests, nChats, mainPc, opencode, retrier>>

\* chat as it would be if every request held the history array itself rather
\* than the copy that map() makes: a later push shows in the requests of
\* earlier calls
ChatStartSharesHistory(c, userMessage) ==
  /\ Idle(c)
  /\ nChats < MaxChats
  /\ nChats' = nChats + 1
  /\ conversationHistory' = Append(conversationHistory, UserTurn(userMessage))
  /\ LET r == [Begin(c, "chat") EXCEPT !.userMessage = userMessage]
         mine == IF desktop = Null THEN Threw(r, NotInitialized)
                                   ELSE Awaiting(r, "capture", 0)
         shared(o) == IF call[o].request = <<>> THEN call[o]
                      ELSE [call[o] EXCEPT !.request =
                              Append(@, [role |-> "user",
                                         content |-> <<T(userMessage)>>])]
     IN /\ call' = [o \in Callers |-> IF o = c THEN mine ELSE shared(o)]
        /\ pc' = [pc EXCEPT ![c] = IF desktop = Null THEN "done" ELSE "capture"]
  /\ UNCHANGED <<desktop, sandboxes, nRequests, mainPc, opencode, retrier>>

\* chat(userMessage) up to its first await: the user turn is pushed, then
\* takeScreenshot either throws at once (no desktop) or awaits the capture
ChatStart(c, userMessage) ==
  /\ Idle(c)
  /\ nChats < MaxChats
  /\ nChats' = nChats + 1
  /\ conversationHistory' = Append(conversationHistory, UserTurn(userMessage))
  /\ LET r == [Begin(c, "chat") EXCEPT !.userMessage = userMessage]
     IN IF desktop = Null
          THEN /\ call' = [call EXCEPT ![c] = Threw(r, NotInitialized)]
               /\ pc' = [pc EXCEPT ![c] = "done"]
          ELSE /\ call' = [call EXCEPT ![c] = Awaiting(r, "capture", 0)]
               /\ pc' = [pc EXCEPT ![c] = "capture"]
  /\ UNCHANGED <<desktop, sandboxes, nRequests, mainPc, opencode, retrier>>

\* the capture resolves: the first request is sent to the provider
CaptureReturns(c) ==
  /\ pc[c] = "capture"
  /\ Live(call[c].target)
  /\ LET img == Image(nChats)
     IN call' = [call EXCEPT ![c] =
          Awaiting(
            Logged([@ EXCEPT !.screenshotBase64 = img,
                             !.request = FirstRequest(conversationHistory,
                                                      call[c].userMessage, img)],
                   <<SandboxEvent("screenshot", NoInput, call[c].target, TRUE),
                     ProviderEvent(nRequests + 1)>>),
            "completion", 1)]
  /\ nRequests' = nRequests + 1
  /\ pc' = [pc EXCEPT ![c] = "model1"]
  /\ UNCHANGED <<desktop, conversationHistory, sandboxes, nChats, mainPc, opencode, retrier>>

\* mutant: the failing capture takes the user turn back
CaptureFailsRollsBack(c) ==
  /\ pc[c] = "capture"
  /\ call' = [call EXCEPT ![c] =
       Threw(Logged(@, <<SandboxEvent("screenshot", NoInput, call[c].target, FALSE)>>),
             SandboxError)]
  /\ conversationHistory' = SubSeq(conversationHistory, 1, call[c].base)
  /\ pc' = [pc EXCEPT ![c] = "done"]
  /\ UNCHANGED <<desktop, sandboxes, nRequests, nChats, mainPc, opencode, retrier>>

\* the capture rejects: takeScreenshot rethrows, chat rethrows
CaptureFails(c) ==
  /\ pc[c] = "capture"
  /\ call' = [call EXCEPT ![c] =
       Threw(Logged(@, <<SandboxEvent("screenshot", NoInput, call[c].target, FALSE)>>),
             SandboxError)]
  /\ pc' = [pc EXCEPT ![c] = "done"]
  /\ UNCHANGED <<desktop, conversationHistory, sandboxes, nRequests, nChats, mainPc, opencode, retrier>>

\* mutant: the final assistant turn is not pushed
FinishWithoutPush(c, r, text) ==
  /\ UNCHANGED conversationHistory
  /\ call' = [call EXCEPT ![c] =
       Returned([r EXCEPT !.assistantMessage = OrFallback(text)], OrFallback(text))]
  /\ pc' = [pc EXCEPT ![c] = "done"]

\* the last push of chat and its return value
Finish(c, r, text) ==
  /\ conversationHistory' = Append(conversationHistory, AssistantText(OrFallback(text)))
  /\ call' = [call EXCEPT ![c] =
       Returned([r EXCEPT !.assistantMessage = OrFallback(text)], OrFallback(text))]
  /\ pc' = [pc EXCEPT ![c] = "done"]

\* mutant: the follow-up request is sent even when no tool call was made
FirstResponseAlwaysFollowsUp(c, tmpl) ==
  /\ pc[c] = "model1"
  /\ LET content == Stamp(tmpl, nRequests)
         toolCalls == ToolCallsOf(content)
         r == [call[c] EXCEPT !.content = content,
                              !.assistantMessage = TextOf(content),
                              !.toolCalls = toolCalls]
         h == Append(conversationHistory, AssistantBlocks(content))
     IN IF toolCalls = <<>>
          THEN /\ conversationHistory' = h
               /\ nRequests' = nRequests + 1
               /\ call' = [call EXCEPT ![c] =
                    Awaiting(Logged([r EXCEPT !.request = FollowUpRequest(h, <<>>)],
                                    <<ProviderEvent(nRequests + 1)>>),
                             "completion", 2)]
               /\ pc' = [pc EXCEPT ![c] = "model2"]
          ELSE /\ call' = [call EXCEPT ![c] = Awaiting(r, "action", 1)]
               /\ pc' = [pc EXCEPT ![c] = "exec"]
               /\ UNCHANGED <<conversationHistory, nRequests>>
  /\ UNCHANGED <<desktop, sandboxes, nChats, mainPc, opencode, retrier>>

\* mutant: the tool calls of the first response are all started at once
FirstResponseStartsAll(c, tmpl) ==
  /\ pc[c] = "model1"
  /\ LET content == Stamp(tmpl, nRequests)
         toolCalls == ToolCallsOf(content)
         r == [call[c] EXCEPT !.content = content,
                              !.assistantMessage = TextOf(content),
                              !.toolCalls = toolCalls]
     IN IF toolCalls = <<>>
          THEN Finish(c, r, TextOf(content))
          ELSE /\ call' = [call EXCEPT ![c] =
                    [r EXCEPT !.pending =
                       [i \in 1..Len(toolCalls) |-> [kind |-> "action", n |-> i]]]]
               /\ pc' = [pc EXCEPT ![c] = "exec"]
               /\ UNCHANGED conversationHistory
  /\ UNCHANGED <<desktop, sandboxes, nRequests, nChats, mainPc, opencode, retrier>>

\* the first response arrives and is split into text and tool calls; with
\* no tool call the turn ends here
FirstResponse(c, tmpl) ==
  /\ pc[c] = "model1"
  /\ LET content == Stamp(tmpl, nRequests)
         toolCalls == ToolCallsOf(content)
         r == [call[c] EXCEPT !.content = content,
                              !.assistantMessage = TextOf(content),
                              !.toolCalls = toolCalls]
     IN IF toolCalls = <<>>
          THEN Finish(c, r, TextOf(content))
          ELSE /\ call' = [call EXCEPT ![c] = Awaiting(r, "action", 1)]
               /\ pc' = [pc EXCEPT ![c] = "exec"]
               /\ UNCHANGED conversationHistory
  /\ UNCHANGED <<desktop, sandboxes, nRequests, nChats, mainPc, opencode, retrier>>

\* the first request rejects: chat rethrows
FirstRequestFails(c) ==
  /\ pc[c] = "model1"
  /\ call' = [call EXCEPT ![c] = Threw(@, ProviderError)]
  /\ pc' = [pc EXCEPT ![c] = "done"]
  /\ UNCHANGED <<desktop, conversationHistory, sandboxes, nRequests, nChats, mainPc, opencode, retrier>>

\* one pass of the loop over toolCalls: executeToolCall is awaited and its
\* result pushed; after the last one the assistant turn is pushed and the
\* follow-up request is sent
ExecuteNext(c, failAt) ==
  /\ pc[c] = "exec"
  /\ LET i == Len(call[c].toolResults) + 1
         tc == call[c].toolCalls[i]
         x == ExecuteToolCall(tc.name, tc.input, desktop, Live(desktop), failAt,
                              Image(nChats))
         results == Append(call[c].toolResults,
                           [type |-> "tool_result", tool_use_id |-> tc.id,
                            content |-> x.result])
         r == Logged(call[c], <<ExecEvent(tc)>> \o x.calls)
         h == Append(conversationHistory, AssistantBlocks(call[c].content))
     IN /\ TRUE
        /\ IF x.threw
             THEN /\ call' = [call EXCEPT ![c] = Threw(r, x.error)]
                  /\ pc' = [pc EXCEPT ![c] = "done"]
                  /\ UNCHANGED <<conversationHistory, nRequests>>
             ELSE IF i < Len(call[c].toolCalls)
               THEN /\ call' = [call EXCEPT ![c] =
                         Awaiting([r EXCEPT !.toolResults = results], "action", i + 1)]
                    /\ UNCHANGED <<pc, conversationHistory, nRequests>>
               ELSE /\ conversationHistory' = h
                    /\ nRequests' = nRequests + 1
                    /\ call' = [call EXCEPT ![c] =
                         Awaiting(
                           Logged([r EXCEPT !.toolResults = results,
                                            !.request = FollowUpRequest(h, results)],
                                  <<ProviderEvent(nRequests + 1)>>),
                           "completion", 2)]
                    /\ pc' = [pc EXCEPT ![c] = "model2"]
  /\ UNCHANGED <<desktop, sandboxes, nChats, mainPc, opencode, retrier>>

\* mutant: the tool calls of the follow-up response are executed too
FollowUpResponseExecutes(c, tmpl) ==
  /\ pc[c] = "model2"
  /\ LET followUp == Stamp(tmpl, nRequests)
         more == ToolCallsOf(followUp)
     IN Finish(c, Logged([call[c] EXCEPT !.followUp = followUp],
                         [i \in 1..Len(more) |-> ExecEvent(more[i])]),
               call[c].assistantMessage \o FollowUpTextOf(followUp))
  /\ UNCHANGED <<desktop, sandboxes, nRequests, nChats, mainPc, opencode, retrier>>

\* the follow-up response arrives: only its text is used
FollowUpResponse(c, tmpl) ==
  /\ pc[c] = "model2"
  /\ LET followUp == Stamp(tmpl, nRequests)
     IN Finish(c, [call[c] EXCEPT !.followUp = followUp],
               call[c].assistantMessage \o FollowUpTextOf(followUp))
  /\ UNCHANGED <<desktop, sandboxes, nRequests, nChats, mainPc, opencode, retrier>>

\* mutant: the failing follow-up request takes the turns of this call back
FollowUpFailsRollsBack(c) ==
  /\ pc[c] = "model2"
  /\ call' = [call EXCEPT ![c] = Threw(@, ProviderError)]
  /\ conversationHistory' = SubSeq(conversationHistory, 1, call[c].base)
  /\ pc' = [pc EXCEPT ![c] = "done"]
  /\ UNCHANGED <<desktop, sandboxes, nRequests, nChats, mainPc, opencode, retrier>>

\* the follow-up request rejects: chat rethrows
FollowUpFails(c) ==
  /\ pc[c] = "model2"
  /\ call' = [call EXCEPT ![c] = Threw(@, ProviderError)]
  /\ pc' = [pc EXCEPT ![c] = "done"]
  /\ UNCHANGED <<desktop, conversationHistory, sandboxes, nRequests, nChats, mainPc, opencode, retrier>>

\* the promise of the call settles and the caller goes on
Return(c) ==
  /\ pc[c] = "done"
  /\ pc' = [pc EXCEPT ![c] = "idle"]
  /\ call' = [call EXCEPT ![c] = NoCall]
  /\ UNCHANGED <<desktop, conversationHistory, sandboxes, nRequests, nChats, mainPc, opencode, retrier>>

\* a call one caller may start
Start(c) ==
  \/ InitializeOk(c)
  \/ InitializeFails(c)
  \/ \E ok \in BOOLEAN : Cleanup(c, ok)
  \/ \E ok \in BOOLEAN : TakeScreenshot(c, ok)
  \/ \E tc \in DirectToolCalls, failAt \in 0..MaxAmount : ExecuteToolCallDirect(c, tc, failAt)
  \/ \E userMessage \in UserMessages : ChatStart(c, userMessage)

\* a pending call goes on to its next await or settles
Step(c) ==
  \/ CaptureReturns(c)
  \/ CaptureFails(c)
  \/ \E tmpl \in FirstResponses : FirstResponse(c, tmpl)
  \/ FirstRequestFails(c)
  \/ \E failAt \in 0..MaxAmount : ExecuteNext(c, failAt)
  \/ \E tmpl \in FollowUpResponses : FollowUpResponse(c, tmpl)
  \/ FollowUpFails(c)
  \/ Return(c)

\* the caller of main(): it awaits every call before it makes the next one
Main == 1

Next == Start(Main) \/ Step(Main)

Spec == Init /\ [][Next]_vars


\* ------------------------------------------------- the startup command

\* the two instructions of main()
Task1 == <<"launch", "chrome", "search">>
Task2 == <<"launch", "code", "create", "file">>

\* await agent.initialize()
MainInitialize ==
  /\ mainPc = "initialize"
  /\ (InitializeOk(Main) \/ InitializeFails(Main))

\* await agent.chat(...) of the first and of the second task
MainTask ==
  \/ mainPc = "task1" /\ ChatStart(Main, Task1)
  \/ mainPc = "task2" /\ ChatStart(Main, Task2)

\* a chat started by main() goes on to its next await or settles
MainChatStep ==
  \/ CaptureReturns(Main)
  \/ CaptureFails(Main)
  \/ \E tmpl \in FirstResponses : FirstResponse(Main, tmpl)
  \/ FirstRequestFails(Main)
  \/ \E failAt \in 0..MaxAmount : ExecuteNext(Main, failAt)
  \/ \E tmpl \in FollowUpResponses : FollowUpResponse(Main, tmpl)
  \/ FollowUpFails(Main)

\* finally { await agent.cleanup() }
MainFinally ==
  /\ mainPc = "finally"
  /\ \E ok \in BOOLEAN : Cleanup(Main, ok)

\* the statement after the one that has completed inside try
AfterStatement(stmt) ==
  CASE stmt = "initialize" -> "task1"
    [] stmt = "task1" -> "pause"
    [] stmt = "task2" -> "finally"
    [] OTHER -> "returned"

\* the awaited call settles: a rejection inside try enters catch, anything
\* else lets main() go on; after finally main() returns
MainResumes ==
  /\ mainPc \in {"initialize", "task1", "task2", "finally"}
  /\ pc[Main] = "done"
  /\ mainPc' = IF call[Main].outcome = "threw" THEN "catch"
               ELSE AfterStatement(mainPc)
  /\ pc' = [pc EXCEPT ![Main] = "idle"]
  /\ UNCHANGED <<desktop, conversationHistory, sandboxes, call, nRequests, nChats, opencode, retrier>>

\* the pause between the two tasks is over
MainPause ==
  /\ mainPc = "pause"
  /\ mainPc' = "task2"
  /\ UNCHANGED <<desktop, conversationHistory, sandboxes, pc, call, nRequests, nChats, opencode, retrier>>

\* catch: process.exit(1) ends the process at once, before finally runs
MainCatch ==
  /\ mainPc = "catch"
  /\ mainPc' = "exit1"
  /\ UNCHANGED <<desktop, conversationHistory, sandboxes, pc, call, nRequests, nChats, opencode, retrier>>

InitMain == NewAgent /\ mainPc = "initialize"

NextMain ==
  \/ MainInitialize
  \/ MainTask
  \/ MainChatStep
  \/ MainFinally
  \/ MainResumes
  \/ MainPause
  \/ MainCatch

SpecMain == InitMain /\ [][NextMain]_vars


\* ------------------------------------------- the interactive command

\* const { direction, amount = 3 }: the passes when amount is left out
AmountDefault == 3

\* the exit keyword and the lines the user may type
ExitKeyword == <<"e", "x", "i", "t">>

InputLines ==
  { <<"e", "x", "i", "t">>, <<"E", "x", "I", "T">>, <<"g", "o">>,
    <<"e", "x", "i", "t", "s">> }

LowerChar(ch) ==
  CASE ch = "E" -> "e" [] ch = "X" -> "x" [] ch = "I" -> "i" [] ch = "T" -> "t"
    [] OTHER -> ch

\* input.toLowerCase()
ToLowerCase(s) == [i \in 1..Len(s) |-> LowerChar(s[i])]

\* mutant: the line is compared as it was typed
IsExitCaseSensitive(input) == input = ExitKeyword

\* input.toLowerCase() === "exit"
IsExit(input) == ToLowerCase(input) = ExitKeyword

\* what the provider may answer in the interactive session
InteractiveResponses ==
  FirstResponses \union {<<T(<<"h">>), U("scroll", [direction |-> "up"])>>}

\* scroll of InteractiveComputerAgent: amount = 3 when it is left out, and
\* (amount || 3) passes of the loop
InteractiveToolInput(toolName, toolInput) ==
  IF toolName = "scroll" /\ Iterations(toolInput) = 0
    THEN [f \in DOMAIN toolInput \union {"amount"} |->
            IF f = "amount" THEN AmountDefault ELSE toolInput[f]]
    ELSE toolInput

\* executeToolCall of InteractiveComputerAgent
InteractiveExecuteToolCall(toolName, toolInput, d, live, failAt, img) ==
  ExecuteToolCall(toolName, InteractiveToolInput(toolName, toolInput), d, live,
                  failAt, img)

\* messages of the one request of an interactive turn: the final entry
\* repeats the instruction beside the image
InteractiveRequest(h, userMessage, img) ==
  MapHistory(h) \o
    <<[role |-> "user",
       content |-> <<[type |-> "image", data |-> img], T(userMessage)>>]>>

\* the executeToolCall calls a pending call has made so far
Executed(r) == Cardinality({j \in DOMAIN r.events : r.events[j].ev = "exec"})

\* the capture resolves: the request is sent to the provider
InteractiveCaptureReturns(c) ==
  /\ pc[c] = "capture"
  /\ Live(call[c].target)
  /\ LET img == Image(nChats)
     IN call' = [call EXCEPT ![c] =
          Awaiting(
            Logged([@ EXCEPT !.screenshotBase64 = img,
                             !.request = InteractiveRequest(conversationHistory,
                                                            call[c].userMessage, img)],
                   <<SandboxEvent("screenshot", NoInput, call[c].target, TRUE),
                     ProviderEvent(nRequests + 1)>>),
            "completion", 1)]
  /\ nRequests' = nRequests + 1
  /\ pc' = [pc EXCEPT ![c] = "model1"]
  /\ UNCHANGED <<desktop, conversationHistory, sandboxes, nChats, mainPc, opencode, retrier>>

\* mutant: an empty answer is replaced by the fixed string
InteractiveFinishWithFallback(c, r, text) ==
  /\ conversationHistory' = Append(conversationHistory, AssistantText(OrFallback(text)))
  /\ call' = [call EXCEPT ![c] =
       Returned([r EXCEPT !.assistantMessage = OrFallback(text)], OrFallback(text))]
  /\ pc' = [pc EXCEPT ![c] = "done"]

\* the push of fullResponse and the return value of the interactive chat
InteractiveFinish(c, r, text) ==
  /\ conversationHistory' = Append(conversationHistory, AssistantText(text))
  /\ call' = [call EXCEPT ![c] =
       Returned([r EXCEPT !.assistantMessage = text], text)]
  /\ pc' = [pc EXCEPT ![c] = "done"]

\* the response arrives and is split into text and tool calls; with no tool
\* call the turn ends here
InteractiveResponse(c, tmpl) ==
  /\ pc[c] = "model1"
  /\ LET content == Stamp(tmpl, nRequests)
         toolCalls == ToolCallsOf(content)
         r == [call[c] EXCEPT !.content = content,
                              !.assistantMessage = TextOf(content),
                              !.toolCalls = toolCalls]
     IN IF toolCalls = <<>>
          THEN InteractiveFinish(c, r, TextOf(content))
          ELSE /\ call' = [call EXCEPT ![c] = Awaiting(r, "action", 1)]
               /\ pc' = [pc EXCEPT ![c] = "exec"]
               /\ UNCHANGED conversationHistory
  /\ UNCHANGED <<desktop, sandboxes, nRequests, nChats, mainPc, opencode, retrier>>

\* one pass of the loop over toolCalls: executeToolCall is awaited and its
\* result only logged; after the last one fullResponse is pushed and returned
InteractiveExecuteNext(c, failAt) ==
  /\ pc[c] = "exec"
  /\ LET i == Executed(call[c]) + 1
         tc == call[c].toolCalls[i]
         x == InteractiveExecuteToolCall(tc.name, tc.input, desktop, Live(desktop),
                                         failAt, Image(nChats))
         r == Logged(call[c], <<ExecEvent(tc)>> \o x.calls)
     IN IF x.threw
          THEN /\ call' = [call EXCEPT ![c] = Threw(r, x.error)]
               /\ pc' = [pc EXCEPT ![c] = "done"]
               /\ UNCHANGED conversationHistory
          ELSE IF i < Len(call[c].toolCalls)
            THEN /\ call' = [call EXCEPT ![c] = Awaiting(r, "action", i + 1)]
                 /\ UNCHANGED <<pc, conversationHistory>>
            ELSE InteractiveFinish(c, r, call[c].assistantMessage)
  /\ UNCHANGED <<desktop, sandboxes, nRequests, nChats, mainPc, opencode, retrier>>

\* main(): await agent.initialize()
SessionInitialize ==
  /\ mainPc = "start"
  /\ (InitializeOk(Main) \/ InitializeFails(Main))

\* initialize has settled: a rejection ends the process with process.exit(1),
\* otherwise startInteractiveSession issues the first prompt
SessionStarts ==
  /\ mainPc = "start"
  /\ pc[Main] = "done"
  /\ mainPc' = IF call[Main].outcome = "threw" THEN "exit1" ELSE "question"
  /\ pc' = [pc EXCEPT ![Main] = "idle"]
  /\ UNCHANGED <<desktop, conversationHistory, sandboxes, call, nRequests, nChats, opencode, retrier>>

\* rl.question calls back with the line the user typed
ReadLine(line) ==
  /\ mainPc = "question"
  /\ mainPc' = "line"
  /\ call' = [call EXCEPT ![Main] = [NoCall EXCEPT !.userMessage = line]]
  /\ UNCHANGED <<desktop, conversationHistory, sandboxes, pc, nRequests, nChats, opencode, retrier>>

\* the line is the exit keyword: await this.cleanup()
SessionExit ==
  /\ mainPc = "line"
  /\ call[Main].op = "none"
  /\ IsExit(call[Main].userMessage)
  /\ \E ok \in BOOLEAN : Cleanup(Main, ok)

\* any other line: await this.chat(input)
SessionChat ==
  /\ mainPc = "line"
  /\ call[Main].op = "none"
  /\ ~IsExit(call[Main].userMessage)
  /\ ChatStart(Main, call[Main].userMessage)

\* a chat of the session goes on to its next await or settles
SessionChatStep ==
  \/ InteractiveCaptureReturns(Main)
  \/ CaptureFails(Main)
  \/ \E tmpl \in InteractiveResponses : InteractiveResponse(Main, tmpl)
  \/ FirstRequestFails(Main)
  \/ \E failAt \in 0..MaxAmount : InteractiveExecuteNext(Main, failAt)

\* mutant: a failed chat ends the session
SessionResumesEndsOnFailure ==
  /\ mainPc = "line"
  /\ pc[Main] = "done"
  /\ mainPc' = IF call[Main].op = "cleanup" \/ call[Main].outcome = "threw"
                 THEN "closed" ELSE "question"
  /\ pc' = [pc EXCEPT ![Main] = "idle"]
  /\ UNCHANGED <<desktop, conversationHistory, sandboxes, call, nRequests, nChats, opencode, retrier>>

\* the awaited call settles: after cleanup rl.close() and return, after a
\* chat (its error is caught and logged) the next prompt()
SessionResumes ==
  /\ mainPc = "line"
  /\ pc[Main] = "done"
  /\ mainPc' = IF call[Main].op = "cleanup" THEN "closed" ELSE "question"
  /\ pc' = [pc EXCEPT ![Main] = "idle"]
  /\ UNCHANGED <<desktop, conversationHistory, sandboxes, call, nRequests, nChats, opencode, retrier>>

InitInteractive == NewAgent /\ mainPc = "start"

NextInteractive ==
  \/ SessionInitialize
  \/ SessionStarts
  \/ \E line \in InputLines : ReadLine(line)
  \/ SessionExit
  \/ SessionChat
  \/ SessionChatStep
  \/ SessionResumes

SpecInteractive == InitInteractive /\ [][NextInteractive]_vars


\* ------------------------------------------- OpencodeComputerAgent

MaxServers == 2
MaxSessions == 2

\* the client made by createOpencodeClient for the server at config.serverUrl
ExistingServer == -1

AgentNotInitialized == <<"Agent not initialized. Call initialize() first.">>
AgentNotInitializedShort == <<"Agent not initialized.">>
SessionNotCreated == <<"Session not created. Call createSession() first.">>
NoSessionToDelete == <<"No session to delete.">>
ServerError == <<"server error">>

\* the server behind the client answers: the existing server may, a local
\* server does until it is closed
Reaches(o) ==
  \/ o.client = ExistingServer
  \/ o.client \in DOMAIN o.servers /\ o.servers[o.client] = "running"

ServerRequest(name, id) == [call |-> name, id |-> id]

OcReturned(o, name, value, reqs) ==
  [o EXCEPT !.last = [op |-> name, hadClient |-> opencode.client # Null,
                      outcome |-> "returned", error |-> <<>>, ret |-> value,
                      requests |-> reqs]]

OcThrew(o, name, err, reqs) ==
  [o EXCEPT !.last = [op |-> name, hadClient |-> opencode.client # Null,
                      outcome |-> "threw", error |-> err, ret |-> FALSE,
                      requests |-> reqs]]

\* initialize(useExistingServer): the client is made, or the server is
\* started and its client taken, before the health check; every error is
\* rethrown
OpencodeInitialize(o, useExistingServer, started, healthy) ==
  LET k == Len(o.servers) + 1
      o1 == IF useExistingServer THEN [o EXCEPT !.client = ExistingServer]
            ELSE IF started
              THEN [o EXCEPT !.servers = Append(@, "running"), !.server = k,
                             !.client = k]
            ELSE o
  IN IF ~useExistingServer /\ ~started
       THEN OcThrew(o1, "initialize", ServerError, <<>>)
     ELSE IF healthy
       THEN OcReturned(o1, "initialize", TRUE, <<ServerRequest("health", Null)>>)
     ELSE OcThrew(o1, "initialize", ServerError, <<ServerRequest("health", Null)>>)

\* createSession(title)
OpencodeCreateSession(o, ok) ==
  IF o.client = Null THEN OcThrew(o, "createSession", AgentNotInitialized, <<>>)
  ELSE IF ok /\ Reaches(o)
    THEN OcReturned([o EXCEPT !.sessions = Append(@, "open"),
                              !.currentSession = Len(o.sessions) + 1],
                    "createSession", TRUE, <<ServerRequest("create", Null)>>)
  ELSE OcThrew(o, "createSession", ServerError, <<ServerRequest("create", Null)>>)

\* prompt, shell and command: the same guard, then one request that names
\* the current session
OpencodeSessionCall(o, name, ok) ==
  IF o.client = Null \/ o.currentSession = Null
    THEN OcThrew(o, name, SessionNotCreated, <<>>)
  ELSE IF ok /\ Reaches(o) /\ o.sessions[o.currentSession] = "open"
    THEN OcReturned(o, name, TRUE, <<ServerRequest(name, o.currentSession)>>)
  ELSE OcThrew(o, name, ServerError, <<ServerRequest(name, o.currentSession)>>)

\* what session.delete may do: reject, answer false, or delete an open
\* session of a server that answers
DeleteOutcomes(o, id) ==
  {"error"} \union (IF Reaches(o) THEN {"refused"} ELSE {})
            \union (IF Reaches(o) /\ o.sessions[id] = "open" THEN {"deleted"} ELSE {})

\* deleteSession(sessionId?): currentSession is cleared only when no id was
\* passed
OpencodeDeleteSession(o, sessionId, outcome) ==
  LET id == IF sessionId # Null THEN sessionId ELSE o.currentSession
  IN IF o.client = Null
       THEN OcThrew(o, "deleteSession", AgentNotInitializedShort, <<>>)
     ELSE IF id = Null
       THEN OcThrew(o, "deleteSession", NoSessionToDelete, <<>>)
     ELSE IF outcome = "error"
       THEN OcThrew(o, "deleteSession", ServerError, <<ServerRequest("delete", id)>>)
     ELSE IF outcome = "refused"
       THEN OcReturned(o, "deleteSession", FALSE, <<ServerRequest("delete", id)>>)
     ELSE OcReturned([o EXCEPT !.sessions[id] = "deleted",
                               !.currentSession = IF sessionId = Null THEN Null ELSE @],
                     "deleteSession", TRUE, <<ServerRequest("delete", id)>>)

\* cleanup(): the current session is deleted, the server closed and both
\* references cleared inside one try block; the catch only logs
OpencodeCleanup(o, outcome) ==
  LET o1 == IF o.currentSession # Null
              THEN OpencodeDeleteSession(o, Null, outcome)
              ELSE [o EXCEPT !.last = NoOperation]
      reqs == o1.last.requests
  IN IF o1.last.outcome = "threw"
       THEN OcReturned(o1, "cleanup", FALSE, reqs)
       ELSE OcReturned([o1 EXCEPT !.servers = IF o1.server # Null
                                               THEN [@ EXCEPT ![o1.server] = "closed"]
                                               ELSE @,
                                  !.client = Null, !.server = Null],
                       "cleanup", TRUE, reqs)

\* the other components do not move
OpencodeOnly ==
  UNCHANGED <<desktop, conversationHistory, sandboxes, pc, call, nRequests, nChats,
              mainPc, retrier>>

OcInitialize(useExistingServer, started, healthy) ==
  /\ useExistingServer \/ Len(opencode.servers) < MaxServers
  /\ (useExistingServer => started)
  /\ (~started => healthy)
  /\ opencode' = OpencodeInitialize(opencode, useExistingServer, started, healthy)
  /\ OpencodeOnly

OcCreateSession(ok) ==
  /\ Len(opencode.sessions) < MaxSessions
  /\ opencode' = OpencodeCreateSession(opencode, ok)
  /\ OpencodeOnly

OcSessionCall(name, ok) ==
  /\ opencode' = OpencodeSessionCall(opencode, name, ok)
  /\ OpencodeOnly

OcDeleteSession(sessionId, outcome) ==
  /\ LET id == IF sessionId # Null THEN sessionId ELSE opencode.currentSession
     IN IF opencode.client = Null \/ id = Null
          THEN outcome = "error"
          ELSE outcome \in DeleteOutcomes(opencode, id)
  /\ opencode' = OpencodeDeleteSession(opencode, sessionId, outcome)
  /\ OpencodeOnly

OcCleanup(outcome) ==
  /\ IF opencode.client = Null \/ opencode.currentSession = Null
       THEN outcome = "error"
       ELSE outcome \in DeleteOutcomes(opencode, opencode.currentSession)
  /\ opencode' = OpencodeCleanup(opencode, outcome)
  /\ OpencodeOnly

NextOpencode ==
  \/ \E useExistingServer, started, healthy \in BOOLEAN :
       OcInitialize(useExistingServer, started, healthy)
  \/ \E ok \in BOOLEAN : OcCreateSession(ok)
  \/ \E name \in {"prompt", "shell", "command"}, ok \in BOOLEAN : OcSessionCall(name, ok)
  \/ \E sessionId \in {Null} \union DOMAIN opencode.sessions,
        outcome \in {"error", "refused", "deleted"} : OcDeleteSession(sessionId, outcome)
  \/ \E outcome \in {"error", "refused", "deleted"} : OcCleanup(outcome)

SpecOpencode == Init /\ [][NextOpencode]_vars


\* ------------------------------------------------- TaskExecutor.retry

MaxAttempts == 3

\* the delays a caller may pass, in milliseconds
Delays == {0, 1000}

\* the other components do not move
RetryOnly ==
  UNCHANGED <<desktop, conversationHistory, sandboxes, pc, call, nRequests, nChats,
              mainPc, opencode>>

\* the actions invoked so far
Invoked(r) == Cardinality({j \in DOMAIN r.trace : r.trace[j] = "action"})

\* the head of the for loop: i < maxAttempts enters the body and invokes
\* the action, otherwise retry returns false
RetryLoop(r) ==
  IF r.i < r.maxAttempts
    THEN [r EXCEPT !.pc = "action", !.trace = Append(@, "action")]
    ELSE [r EXCEPT !.pc = "done", !.outcome = "returned", !.ret = FALSE]

\* retry(action, maxAttempts, delayMs) is called; the action is one that
\* throws on its first `failing` invocations
RetryStart(maxAttempts, delayMs, failing) ==
  /\ retrier.pc = "off"
  /\ retrier' = RetryLoop([NoRetry EXCEPT !.maxAttempts = maxAttempts,
                                          !.delayMs = delayMs,
                                          !.failing = failing])
  /\ RetryOnly

\* await action() resolves: return true
RetryActionResolves ==
  /\ retrier.pc = "action"
  /\ Invoked(retrier) > retrier.failing
  /\ retrier' = [retrier EXCEPT !.pc = "done", !.outcome = "returned", !.ret = TRUE]
  /\ RetryOnly

\* mutant: the delay is awaited after every failed attempt
RetryActionRejectsAlwaysWaits ==
  /\ retrier.pc = "action"
  /\ Invoked(retrier) <= retrier.failing
  /\ retrier' = [retrier EXCEPT !.pc = "wait", !.trace = Append(@, "wait")]
  /\ RetryOnly

\* await action() rejects: the catch awaits the delay unless this was the
\* last attempt
RetryActionRejects ==
  /\ retrier.pc = "action"
  /\ Invoked(retrier) <= retrier.failing
  /\ retrier' = IF retrier.i < retrier.maxAttempts - 1
                  THEN [retrier EXCEPT !.pc = "wait", !.trace = Append(@, "wait")]
                  ELSE RetryLoop([retrier EXCEPT !.i = @ + 1])
  /\ RetryOnly

\* controller.wait(delayMs) resolves: i++ and the head of the loop
RetryWaitOver ==
  /\ retrier.pc = "wait"
  /\ retrier' = RetryLoop([retrier EXCEPT !.i = @ + 1,
                                          !.waited = @ + retrier.delayMs])
  /\ RetryOnly

NextRetry ==
  \/ \E maxAttempts \in -1..MaxAttempts, delayMs \in Delays,
        failing \in 0..(MaxAttempts + 1) : RetryStart(maxAttempts, delayMs, failing)
  \/ RetryActionResolves
  \/ RetryActionRejects
  \/ RetryWaitOver

SpecRetry == Init /\ [][NextRetry]_vars


\* ------------------------------------------- two callers, one instance

\* the instruction each caller gives
TaskOf(c) == IF c = Main THEN Task1 ELSE Task2

\* what the provider may answer when two calls are in flight
ConcurrentResponses ==
  { <<T(<<"h", "i">>)>>, <<U("screenshot", NoInput)>> }

\* a chat goes on to its next await or settles
ChatStep(c) ==
  \/ CaptureReturns(c)
  \/ CaptureFails(c)
  \/ \E tmpl \in ConcurrentResponses : FirstResponse(c, tmpl)
  \/ FirstRequestFails(c)
  \/ \E failAt \in 0..1 : ExecuteNext(c, failAt)
  \/ \E tmpl \in FollowUpResponses : FollowUpResponse(c, tmpl)
  \/ FollowUpFails(c)

\* the agent is initialised once, then each caller calls chat once, at any
\* time: nothing in chat waits for the call of the other caller
ConcurrentInitialize ==
  /\ sandboxes = <<>>
  /\ InitializeOk(Main)

ConcurrentInitialized ==
  /\ call[Main].op = "initialize"
  /\ Return(Main)

ConcurrentChat(c) ==
  /\ desktop # Null
  /\ call[c].op = "none"
  /\ ChatStart(c, TaskOf(c))

NextConcurrent ==
  \/ ConcurrentInitialize
  \/ ConcurrentInitialized
  \/ \E c \in Callers : ConcurrentChat(c)
  \/ \E c \in Callers : ChatStep(c)

SpecConcurrent == Init /\ [][NextConcurrent]_vars


\* -------------------------------------------------------- observations

SessionOps == {"chat", "takeScreenshot", "executeToolCall"}

ChatOf(c) == call[c].op = "chat"
Settled(c) == pc[c] = "done"
ChatReturned(c) == ChatOf(c) /\ Settled(c) /\ call[c].outcome = "returned"

\* the history entries pushed since the call of c began
Appended(c) ==
  SubSeq(conversationHistory, call[c].base + 1, Len(conversationHistory))

HasToolUse(content) == \E i \in DOMAIN content : content[i].type = "tool_use"
ToolUses(content) == SelectSeq(content, IsToolUse)

IsExec(e) == e.ev = "exec"
IsProvider(e) == e.ev = "provider"
IsSandbox(e) == e.ev = "sandbox"
Execs(c) == SelectSeq(call[c].events, IsExec)
Provs(c) == SelectSeq(call[c].events, IsProvider)
SandboxCalls(c) == SelectSeq(call[c].events, IsSandbox)
LastEvent(c) == call[c].events[Len(call[c].events)]

\* the positions, in the events of c, of the sandbox calls made by its i-th
\* executeToolCall
SegmentCalls(c, i) ==
  LET ev == call[c].events
  IN {j \in DOMAIN ev :
        /\ ev[j].ev = "sandbox"
        /\ Cardinality({k \in 1..j : ev[k].ev = "exec"}) = i}

FailedIn(c, i) == \E j \in SegmentCalls(c, i) : ~call[c].events[j].ok

IsText(b) == b.type = "text"
TextBlocks(content) == SelectSeq(content, IsText)

RECURSIVE NewlineJoined(_)
\* the texts of the blocks, each one after a newline character
NewlineJoined(blocks) ==
  IF blocks = <<>> THEN <<>>
  ELSE <<"\n">> \o Head(blocks).text \o NewlineJoined(Tail(blocks))

\* the documented number of key presses of a scroll without amount
ScrollDefault == 3

Contains(text, token) == \E i \in DOMAIN text : text[i] = token

\* the tool_result blocks, after entry i of a message list, that answer id
ResultsFor(msgs, i, id) ==
  UNION {{<<k, l>> : l \in {l \in DOMAIN msgs[k].content :
                               /\ msgs[k].content[l].type = "tool_result"
                               /\ msgs[k].content[l].tool_use_id = id}} :
         k \in (i + 1)..Len(msgs)}

\* every tool_use block of an assistant entry has exactly one tool_result
\* with its id in a later entry
Answered(msgs) ==
  \A i \in DOMAIN msgs :
    msgs[i].role = "assistant" =>
      \A j \in DOMAIN msgs[i].content :
        msgs[i].content[j].type = "tool_use" =>
          Cardinality(ResultsFor(msgs, i, msgs[i].content[j].id)) = 1

\* ------------------------------------------------------------ properties

\* C1: a chat call that completes without error has grown the history by
\* exactly 2 entries when its first response held no action request and by
\* exactly 3 when it held at least one.
C1_HistoryGrowth ==
  \A c \in Callers :
    ChatReturned(c) =>
      Len(conversationHistory) - call[c].base =
        IF HasToolUse(call[c].content) THEN 3 ELSE 2

C1_Witness ==
  /\ ChatReturned(Main)
  /\ HasToolUse(call[Main].content)
  /\ call[Main].base > 0
  /\ Len(conversationHistory) = call[Main].base + 3

\* C2: the entries a completed chat call appended are, in order, one user
\* turn with the instruction, one assistant turn and, exactly when the first
\* response held an action request, one synthetic user turn carrying all
\* action results under their correlation identifiers.
C2_AppendedTurns ==
  \A c \in Callers :
    ChatReturned(c) =>
      LET a == Appended(c)
      IN /\ Len(a) >= 2
         /\ a[1] = UserTurn(call[c].userMessage)
         /\ a[2].role = "assistant"
         /\ IF HasToolUse(call[c].content)
              THEN /\ Len(a) = 3
                   /\ a[3].role = "user"
                   /\ a[3].isArray
                   /\ a[3].content = ToolResultsMessage(call[c].toolResults)
              ELSE Len(a) = 2

\* C3: in every request sent to the provider, each action request of an
\* assistant entry has exactly one action result with the same identifier in
\* a later entry of that request.
C3_NoUnansweredRequest ==
  \A c \in Callers : call[c].request # <<>> => Answered(call[c].request)

\* C4: a chat call whose first response holds no action request never
\* invokes executeToolCall and makes exactly one provider call.
C4_NoActionOneRequest ==
  \A c \in Callers :
    (ChatReturned(c) /\ ~HasToolUse(call[c].content)) =>
      /\ Execs(c) = <<>>
      /\ Len(Provs(c)) = 1

C4_Witness ==
  /\ ChatReturned(Main)
  /\ call[Main].content # <<>>
  /\ ~HasToolUse(call[Main].content)
  /\ Len(Provs(Main)) = 1

\* C5: a chat call whose first response holds k >= 1 action requests invokes
\* executeToolCall exactly k times, with the names and inputs of the requests
\* in their listed order, and makes exactly one further provider call, after
\* the k-th execution has finished.
C5_ExecutesInOrderThenFollowsUp ==
  \A c \in Callers :
    (ChatOf(c) /\ HasToolUse(call[c].content)) =>
      LET us == ToolUses(call[c].content)
          ex == Execs(c)
      IN /\ Len(ex) <= Len(us)
         /\ \A i \in DOMAIN ex :
              ex[i].name = us[i].name /\ ex[i].input = us[i].input
         /\ pc[c] = "exec" => Len(Provs(c)) = 1 /\ Len(ex) = Len(call[c].toolResults)
         /\ pc[c] \in {"model2", "done"} =>
              /\ Len(ex) = Len(us)
              /\ Len(Provs(c)) = 2
              /\ LastEvent(c).ev = "provider"

C5_Witness ==
  /\ ChatReturned(Main)
  /\ Len(ToolUses(call[Main].content)) >= 2
  /\ Len(Execs(Main)) = Len(ToolUses(call[Main].content))
  /\ Len(Provs(Main)) = 2

\* C6: one chat call makes at most two provider calls, and action requests
\* in the follow-up response cause neither an executeToolCall invocation nor
\* a further provider call.
C6_DepthTwo ==
  \A c \in Callers :
    ChatOf(c) =>
      /\ Len(Provs(c)) <= 2
      /\ Len(Provs(c)) = 2 => LastEvent(c).ev = "provider"
      /\ Len(Execs(c)) <= Len(ToolUses(call[c].content))

C6_Witness ==
  /\ ChatReturned(Main)
  /\ HasToolUse(call[Main].followUp)
  /\ Len(Provs(Main)) = 2

\* C7: on an agent on which initialize has never succeeded (no sandbox was
\* created, desktop is null), chat, takeScreenshot and executeToolCall fail
\* at once with the not-initialised error and call neither the sandbox nor
\* the provider.
C7_NotInitializedBeforeInitialize ==
  /\ (desktop = Null) <=> (sandboxes = <<>>)
  /\ \A c \in Callers :
       (call[c].op \in SessionOps /\ ~call[c].hadDesktop) =>
         /\ Settled(c)
         /\ call[c].outcome = "threw"
         /\ call[c].error = NotInitialized
         /\ call[c].events = <<>>

C7_Witness ==
  /\ Settled(Main)
  /\ call[Main].op = "executeToolCall"
  /\ ~call[Main].hadDesktop
  /\ call[Main].error = NotInitialized

\* C8: once cleanup has terminated the sandbox of an initialised agent,
\* chat, takeScreenshot and executeToolCall fail with the not-initialised
\* error and make no call to the terminated sandbox.
C8_NotInitializedAfterCleanup ==
  \A c \in Callers :
    ( /\ Settled(c)
      /\ call[c].op \in SessionOps
      /\ call[c].target # Null
      /\ sandboxes[call[c].target] = "killed" ) =>
      /\ call[c].outcome = "threw"
      /\ call[c].error = NotInitialized
      /\ SandboxCalls(c) = <<>>

\* C9 as claimed: in every agent state, executeToolCall with a name outside
\* the seven recognised ones returns an error result whose text contains the
\* name, throws nothing and makes no sandbox call.
C9_UnknownToolAnyState ==
  \A c \in Callers :
    ( /\ Settled(c)
      /\ call[c].op = "executeToolCall"
      /\ call[c].toolName \notin ToolNames ) =>
      /\ call[c].outcome = "returned"
      /\ Contains(call[c].ret.error, call[c].toolName)
      /\ call[c].events = <<>>

\* C9 as amended: the same, in every state in which the agent holds a desktop
\* handle (live or terminated), for a direct call and for a call made by chat.
C9_UnknownToolWithDesktop ==
  \A c \in Callers :
    /\ ( /\ Settled(c)
         /\ call[c].op = "executeToolCall"
         /\ call[c].toolName \notin ToolNames
         /\ call[c].hadDesktop ) =>
         /\ call[c].outcome = "returned"
         /\ DOMAIN call[c].ret = {"error"}
         /\ Contains(call[c].ret.error, call[c].toolName)
         /\ call[c].events = <<>>
    /\ ChatOf(c) =>
         \A i \in DOMAIN call[c].toolResults :
           call[c].toolCalls[i].name \notin ToolNames =>
             /\ DOMAIN call[c].toolResults[i].content = {"error"}
             /\ Contains(call[c].toolResults[i].content.error, call[c].toolCalls[i].name)
             /\ SegmentCalls(c, i) = {}

C9_Witness ==
  /\ Settled(Main)
  /\ call[Main].op = "executeToolCall"
  /\ call[Main].toolName = "drag"
  /\ call[Main].hadDesktop
  /\ sandboxes[call[Main].target] = "killed"
  /\ call[Main].outcome = "returned"

\* C10: when a sandbox call of a requested action fails during a chat turn,
\* executeToolCall returns an error result, the remaining requests are still
\* executed in order, the error result goes into the follow-up request under
\* that action's identifier, and chat does not fail because of it.
C10_ActionFailureAbsorbed ==
  \A c \in Callers :
    (ChatOf(c) /\ HasToolUse(call[c].content)) =>
      LET us == ToolUses(call[c].content)
          res == call[c].toolResults
          last == call[c].request[Len(call[c].request)]
      IN /\ \A i \in DOMAIN res :
              FailedIn(c, i) => res[i].content = [error |-> SandboxError]
         /\ ((\E i \in DOMAIN us : FailedIn(c, i)) /\ pc[c] \in {"model2", "done"}) =>
              /\ Len(Execs(c)) = Len(us)
              /\ \A i \in DOMAIN us : Execs(c)[i].name = us[i].name
              /\ last.role = "user"
              /\ Len(last.content) = Len(us)
              /\ \A i \in DOMAIN us :
                   last.content[i] =
                     [type |-> "tool_result", tool_use_id |-> us[i].id,
                      content |-> res[i].content]
              /\ call[c].outcome = "threw" => call[c].error = ProviderError

C10_Witness ==
  /\ ChatReturned(Main)
  /\ Len(ToolUses(call[Main].content)) >= 2
  /\ FailedIn(Main, 1)
  /\ ~FailedIn(Main, 2)
  /\ Len(Execs(Main)) = Len(ToolUses(call[Main].content))

\* C11: when the initial capture or a provider request of a chat call fails,
\* the call fails with that error, the failed remote call is the last one of
\* the turn, and the entries pushed before the failure stay: the user turn
\* alone after a failed capture or a failed first request, the user turn and
\* the assistant turn holding the action requests after a failed follow-up
\* request.
C11_FailureKeepsAppended ==
  \A c \in Callers :
    (ChatOf(c) /\ Settled(c) /\ call[c].hadDesktop /\ call[c].outcome = "threw") =>
      LET a == Appended(c)
      IN /\ call[c].error \in {SandboxError, ProviderError}
         /\ Len(a) >= 1
         /\ a[1] = UserTurn(call[c].userMessage)
         /\ call[c].error = SandboxError =>
              /\ Len(a) = 1
              /\ call[c].events =
                   <<SandboxEvent("screenshot", NoInput, call[c].target, FALSE)>>
         /\ (call[c].error = ProviderError /\ Len(Provs(c)) = 1) =>
              /\ Len(a) = 1
              /\ IsProvider(LastEvent(c))
              /\ Execs(c) = <<>>
         /\ (call[c].error = ProviderError /\ Len(Provs(c)) # 1) =>
              /\ Len(Provs(c)) = 2
              /\ IsProvider(LastEvent(c))
              /\ HasToolUse(call[c].content)
              /\ Len(Execs(c)) = Len(ToolUses(call[c].content))
              /\ Len(a) = 2
              /\ a[2] = AssistantBlocks(call[c].content)

C11_Witness ==
  /\ ChatOf(Main) /\ Settled(Main)
  /\ call[Main].outcome = "threw"
  /\ call[Main].error = ProviderError
  /\ Len(Provs(Main)) = 2
  /\ call[Main].base > 0
  /\ Len(Appended(Main)) = 2
  /\ Appended(Main)[2] = AssistantBlocks(call[Main].content)

C13_FallbackIffTextsEmpty ==
  \A c \in Callers :
    ChatReturned(c) =>
      (call[c].ret = Fallback <=>
         (TextOf(call[c].content) = <<>> /\ TextOf(call[c].followUp) = <<>>))

\* C13 (amended): chat returns the fixed completion string exactly when the
\* text of the first response is empty (no text block, or only empty ones)
\* and the follow-up response, when there is one, has no text block at all.
C13_FallbackIffNoFollowUpTextBlock ==
  \A c \in Callers :
    ChatReturned(c) =>
      /\ call[c].ret # <<>>
      /\ call[c].ret = Fallback <=>
           (TextOf(call[c].content) = <<>> /\ TextBlocks(call[c].followUp) = <<>>)

C13_Witness ==
  /\ ChatReturned(Main)
  /\ call[Main].ret = Fallback
  /\ HasToolUse(call[Main].content)
  /\ TextBlocks(call[Main].content) # <<>>
  /\ Len(Provs(Main)) = 2

\* C14: the first provider request of a chat call that follows an earlier
\* call holds every history entry appended before, in the original order
\* and with its role and content (a string content as one text block),
\* ahead of the entry with the instruction of this call.
C14_RequestCarriesEarlierTurns ==
  \A c \in Callers :
    (ChatOf(c) /\ pc[c] = "model1" /\ call[c].base > 0) =>
      LET req == call[c].request
          h == conversationHistory
          b == call[c].base
      IN /\ Len(h) = b + 1
         /\ Len(req) = b + 2
         /\ \A i \in 1..b :
              /\ req[i].role = h[i].role
              /\ IF h[i].isArray
                   THEN req[i].content = h[i].content
                   ELSE req[i].content = <<T(h[i].content)>>
         /\ req[b + 1] = [role |-> "user", content |-> <<T(call[c].userMessage)>>]

C14_Witness ==
  /\ ChatOf(Main) /\ pc[Main] = "model1"
  /\ call[Main].base = 3
  /\ conversationHistory[2].isArray
  /\ call[Main].request[2].content = conversationHistory[2].content
  /\ call[Main].request[3].content = <<T(conversationHistory[3].content)>>
  /\ Len(call[Main].request) = 5

\* C15: the history is append-only: over every step of initialize, chat
\* (returning or failing), takeScreenshot, executeToolCall and cleanup, the
\* history before the step is a prefix of the history after it.
C15_HistoryAppendOnly ==
  [][/\ Len(conversationHistory) <= Len(conversationHistory')
     /\ SubSeq(conversationHistory', 1, Len(conversationHistory)) = conversationHistory]_vars

C15_Witness ==
  /\ ChatOf(Main) /\ Settled(Main)
  /\ call[Main].outcome = "threw"
  /\ call[Main].base >= 2
  /\ Len(conversationHistory) > call[Main].base
  /\ sandboxes # <<>>

\* C16: at every reachable state at most one sandbox created by the agent is
\* live, also when initialize is called more than once.
C16_AtMostOneLiveSandbox ==
  Cardinality({i \in DOMAIN sandboxes : sandboxes[i] = "live"}) <= 1

\* C17: within one chat call at most one remote call (capture, execution of
\* an action, completion) is outstanding at any time: a pending call never
\* has a second one beside it, an action is outstanding only when every
\* action before it has delivered its result, and a settled call has none.
C17_OneRemoteCallAtATime ==
  \A c \in Callers :
    ChatOf(c) =>
      /\ Len(call[c].pending) <= 1
      /\ (Settled(c) => call[c].pending = <<>>)
      /\ (~Settled(c) => Len(call[c].pending) = 1)
      /\ \A i \in DOMAIN call[c].pending :
           LET p == call[c].pending[i]
           IN /\ p.kind = "action" =>
                   /\ p.n = Len(call[c].toolResults) + 1
                   /\ Len(Execs(c)) = p.n - 1
                   /\ Len(Provs(c)) = 1
              /\ p.kind = "completion" =>
                   /\ Len(Provs(c)) = p.n
                   /\ Len(call[c].toolResults) = Len(call[c].toolCalls)
                   /\ Len(Execs(c)) = Len(call[c].toolCalls)
              /\ p.kind = "capture" => call[c].events = <<>>

C17_Witness ==
  /\ ChatOf(Main) /\ pc[Main] = "exec"
  /\ Len(call[Main].toolCalls) >= 2
  /\ Len(call[Main].toolResults) = 1
  /\ call[Main].pending = <<[kind |-> "action", n |-> 2]>>

\* C18 (as claimed): the first provider request of a chat call is the history
\* followed by one final user entry that holds both the text of the
\* instruction just given and the image captured in this call.
C18_FinalEntryHasInstructionAndImage ==
  \A c \in Callers :
    (ChatOf(c) /\ pc[c] = "model1") =>
      LET req == call[c].request
          last == req[Len(req)]
      IN /\ last.role = "user"
         /\ \E i \in DOMAIN last.content :
              /\ last.content[i].type = "image"
              /\ last.content[i].data = call[c].screenshotBase64
         /\ \E i \in DOMAIN last.content :
              /\ last.content[i].type = "text"
              /\ last.content[i].text = call[c].userMessage

\* C18 (amended): the first provider request of a chat call of
\* ComputerUseAgent is the history, whose last entry is the user turn with
\* the instruction just given, followed by one final user entry that holds
\* the image captured in this call and an empty text.
C18_InstructionThenImageEntry ==
  \A c \in Callers :
    (ChatOf(c) /\ pc[c] = "model1") =>
      LET req == call[c].request
          h == conversationHistory
          last == req[Len(req)]
      IN /\ Len(h) = call[c].base + 1
         /\ Len(req) = Len(h) + 1
         /\ \A i \in 1..Len(h) :
              /\ req[i].role = h[i].role
              /\ IF h[i].isArray
                   THEN req[i].content = h[i].content
                   ELSE req[i].content = <<T(h[i].content)>>
         /\ h[Len(h)] = UserTurn(call[c].userMessage)
         /\ last.role = "user"
         /\ call[c].screenshotBase64 = Image(nChats)
         /\ last.content = <<[type |-> "image", data |-> Image(nChats)], T(<<>>)>>

C18_Witness ==
  /\ ChatOf(Main) /\ pc[Main] = "model1"
  /\ nChats = 2
  /\ call[Main].base >= 2
  /\ call[Main].userMessage # <<>>
  /\ call[Main].request[Len(call[Main].request)].content =
       <<[type |-> "image", data |-> Image(2)], T(<<>>)>>
  /\ call[Main].request[Len(call[Main].request) - 1].content =
       <<T(call[Main].userMessage)>>

\* C19: a scroll action that executes without a failure has sent the
\* page-direction key exactly amount times, and exactly 3 times when amount
\* is left out.
C19_ScrollPressCount ==
  \A c \in Callers :
    (/\ call[c].op = "executeToolCall" /\ Settled(c)
     /\ call[c].toolName = "scroll"
     /\ call[c].outcome = "returned"
     /\ "success" \in DOMAIN call[c].ret) =>
      LET presses == {j \in DOMAIN call[c].events :
                        /\ call[c].events[j].ev = "sandbox"
                        /\ call[c].events[j].op = "press"
                        /\ call[c].events[j].arg =
                             (IF call[c].toolInput.direction = "down"
                                THEN "Page_Down" ELSE "Page_Up")}
      IN Cardinality(presses) =
           IF "amount" \in DOMAIN call[c].toolInput
             THEN call[c].toolInput.amount ELSE ScrollDefault

\* C20: when the process of the startup command has ended (main() returned
\* or process.exit was called) and initialize had succeeded, the last call
\* main() made on the agent is cleanup.
C20_CleanupBeforeExit ==
  (mainPc \in {"returned", "exit1"} /\ desktop # Null) =>
    /\ call[Main].op = "cleanup"
    /\ \E j \in DOMAIN call[Main].events : call[Main].events[j].op = "kill"

\* the one sandbox call of a settled initialize or cleanup failed
SessionCallFailed(c, o, sbOp) ==
  /\ call[c].op = o /\ Settled(c)
  /\ Len(call[c].events) = 1
  /\ call[c].events[1].op = sbOp
  /\ ~call[c].events[1].ok

\* C21 (as claimed): a failed sandbox creation makes initialize reject with
\* that error and leaves an agent without handle without one; a failed
\* sandbox termination makes cleanup reject with that error.
C21_SessionFailuresRaised ==
  \A c \in Callers :
    /\ SessionCallFailed(c, "initialize", "create") =>
         /\ call[c].outcome = "threw"
         /\ call[c].error = SandboxError
         /\ (~call[c].hadDesktop => desktop = Null)
    /\ SessionCallFailed(c, "cleanup", "kill") =>
         /\ call[c].outcome = "threw"
         /\ call[c].error = SandboxError

\* C21 (amended): a failed sandbox creation makes initialize reject with
\* that error and leaves the handle as it was (none on a new agent); a
\* failed sandbox termination does not make cleanup reject: cleanup returns
\* normally, the handle is kept and the sandbox stays live.
C21_CreateRaisedKillSwallowed ==
  \A c \in Callers :
    /\ SessionCallFailed(c, "initialize", "create") =>
         /\ call[c].outcome = "threw"
         /\ call[c].error = SandboxError
         /\ desktop = call[c].target
         /\ (~call[c].hadDesktop => desktop = Null)
    /\ SessionCallFailed(c, "cleanup", "kill") =>
         /\ call[c].outcome = "returned"
         /\ desktop = call[c].target
         /\ desktop # Null

C21_Witness ==
  /\ SessionCallFailed(Main, "cleanup", "kill")
  /\ call[Main].outcome = "returned"
  /\ sandboxes[desktop] = "live"

C27_PromptAfterChatSettled ==
  [][/\ mainPc' = "question" => pc'[Main] = "idle"
     /\ (mainPc = "question" /\ mainPc' = "line") => pc[Main] = "idle"
     /\ (mainPc = "line" /\ call[Main].op = "chat" /\ mainPc' # mainPc) =>
          /\ pc[Main] = "done"
          /\ mainPc' = "question"]_vars

C27_Witness ==
  /\ mainPc = "question"
  /\ call[Main].op = "chat"
  /\ call[Main].outcome = "threw"
  /\ pc[Main] = "idle"

\* C28: a chat of InteractiveComputerAgent that returns has made exactly one
\* provider request, has executed the requested actions in listed order, has
\* kept no action result (the history holds no block content and grew by the
\* user text and the assistant text only) and returns the concatenated text
\* of the response as it is, also when it is empty.
C28_InteractiveChatOneRequest ==
  \A c \in Callers :
    ChatReturned(c) =>
      LET us == ToolUses(call[c].content)
          a == Appended(c)
      IN /\ Len(Provs(c)) = 1
         /\ Len(Execs(c)) = Len(us)
         /\ \A i \in DOMAIN us :
              Execs(c)[i].name = us[i].name /\ Execs(c)[i].input = us[i].input
         /\ call[c].toolResults = <<>>
         /\ \A i \in DOMAIN conversationHistory : ~conversationHistory[i].isArray
         /\ Len(a) = 2
         /\ a[1] = UserTurn(call[c].userMessage)
         /\ a[2] = AssistantText(TextOf(call[c].content))
         /\ call[c].ret = TextOf(call[c].content)

C28_Witness ==
  /\ ChatReturned(Main)
  /\ Len(ToolUses(call[Main].content)) >= 2
  /\ Len(Execs(Main)) = Len(ToolUses(call[Main].content))
  /\ call[Main].ret = <<>>
  /\ call[Main].base >= 2

\* C23: after cleanup of OpencodeComputerAgent, on every path, cleanup has
\* not thrown and the client and server references are null (the local
\* server was closed before its reference was cleared).
C23_CleanupClosesAndClears ==
  opencode.last.op = "cleanup" =>
    /\ opencode.last.outcome = "returned"
    /\ opencode.client = Null
    /\ opencode.server = Null

\* C29: whenever currentSession of OpencodeComputerAgent is non-null it
\* names a session that has not been deleted through the agent.
C29_CurrentSessionNotDeleted ==
  opencode.currentSession # Null =>
    opencode.sessions[opencode.currentSession] = "open"

\* C30: when initialize of an OpencodeComputerAgent without client throws,
\* the client and server references are null and no local server is running.
C30_FailedInitializeLeavesNothing ==
  (/\ opencode.last.op = "initialize"
   /\ opencode.last.outcome = "threw"
   /\ ~opencode.last.hadClient) =>
    /\ opencode.client = Null
    /\ opencode.server = Null
    /\ \A k \in DOMAIN opencode.servers : opencode.servers[k] = "closed"

\* C24: TaskExecutor.retry never invokes the action more than maxAttempts
\* times and never waits twice in a row or before the first attempt; when it
\* has settled it has returned, with true exactly when the last attempt did
\* not throw (and then it was the first such attempt), with false exactly
\* when all maxAttempts attempts threw or maxAttempts <= 0 (no invocation);
\* one delay lies between any two attempts and none after the last.
C24_RetryAttempts ==
  LET r == retrier
      n == Invoked(r)
      limit == IF r.maxAttempts > 0 THEN r.maxAttempts ELSE 0
  IN /\ n <= limit
     /\ \A j \in DOMAIN r.trace : r.trace[j] = (IF j % 2 = 1 THEN "action" ELSE "wait")
     /\ r.outcome # "threw"
     /\ r.pc = "done" =>
          /\ r.outcome = "returned"
          /\ Len(r.trace) = (IF n = 0 THEN 0 ELSE 2 * n - 1)
          /\ r.waited = (IF n = 0 THEN 0 ELSE (n - 1) * r.delayMs)
          /\ r.ret <=> (n >= 1 /\ n = r.failing + 1)
          /\ ~r.ret <=> (n = limit /\ r.failing >= n)

C24_Witness ==
  /\ retrier.pc = "done"
  /\ ~retrier.ret
  /\ retrier.maxAttempts = MaxAttempts
  /\ Invoked(retrier) = MaxAttempts
  /\ retrier.waited = (MaxAttempts - 1) * 1000

\* C25: a chat call that fails because the agent has no desktop handle
\* leaves the conversation history as it was before the call.
C25_NoHandleChatLeavesHistory ==
  \A c \in Callers :
    (/\ ChatOf(c) /\ Settled(c)
     /\ call[c].outcome = "threw"
     /\ call[c].error = NotInitialized) =>
      Len(conversationHistory) = call[c].base


\* c is inside chat, at one of its awaits, and d called chat after c did
StartedWhileAwaiting(c, d) ==
  /\ ChatOf(c) /\ ~Settled(c)
  /\ ChatOf(d)
  /\ call[c].base < call[d].base

\* the request of c holds the instruction of d as a turn of its own
Carries(c, d) ==
  \E j \in 1..Len(call[c].request) :
    call[c].request[j] =
      [role |-> "user", content |-> <<T(call[d].userMessage)>>]

\* c called chat first, d second: their user turns are adjacent in the
\* history, so the turn of c is not followed by its assistant turn, and the
\* request of c carries the instruction of d
Interleaved(c, d) ==
  /\ ChatOf(c) /\ ChatOf(d)
  /\ call[c].base < call[d].base
  /\ \E i \in 1..(Len(conversationHistory) - 1) :
       /\ conversationHistory[i] = UserTurn(call[c].userMessage)
       /\ conversationHistory[i + 1] = UserTurn(call[d].userMessage)
  /\ Carries(c, d)

\* C26: chat does not serialise turns. When a second chat call starts on the
\* instance while the first awaits a remote call, the two user turns can end
\* up adjacent in the history, the first user turn without its assistant
\* turn after it, and the request of the first call carrying the instruction
\* of the second (the witness). Such a state arises only in a step in which
\* the first call resumes from an await during which the second call had
\* started, and a call is in that position only because the second call
\* started while the first was in flight: when each call starts after the
\* other has settled, no step leads to such a state.
C26_InterleavedOnlyWhenOverlapping ==
  [][\A c, d \in Callers :
       /\ (c # d /\ ~Interleaved(c, d) /\ Interleaved(c, d)') =>
            StartedWhileAwaiting(c, d)
       /\ (c # d /\ ~StartedWhileAwaiting(c, d)
                 /\ StartedWhileAwaiting(c, d)') =>
            (ChatOf(c) /\ ~Settled(c) /\ ~ChatOf(d) /\ ChatOf(d)')]_vars

C26_Witness ==
  /\ Interleaved(Main, 2)
  /\ Len(Provs(Main)) >= 1

====
